---------------------------- MODULE Spec2Model ----------------------------
(***************************************************************************)
(* ClipForge timeline export.                                              *)
(*                                                                         *)
(* Two builds of the export command are modelled:                          *)
(*   - src/src-tauri/src/commands/ffmpeg.rs  export_timeline: sorts the    *)
(*     clips, plans gap and clip segments into one filter graph and runs   *)
(*     ffmpeg once (the "timeline" export);                                *)
(*   - src/clipforge/src-tauri/src/commands/ffmpeg.rs  export_timeline:    *)
(*     writes the clips' paths to <tmp>/concat.txt and runs ffmpeg's       *)
(*     concat demuxer on it (the "concat" export), here as two concurrent  *)
(*     invocations sharing the file system.                                *)
(* A behaviour is one run of one of the two builds: Init picks the build   *)
(* and its inputs, the other build's variables stay idle.                  *)
(*                                                                         *)
(* Time is f64 in the code.  A finite value is modelled as an integer      *)
(* number of ticks of 100 ms (the smallest time constant of the code, the  *)
(* 0.1 s output padding); NaN and the infinities are kept as values of     *)
(* their own with the comparison and arithmetic rules of IEEE 754.         *)
(***************************************************************************)
EXTENDS Integers, Sequences, FiniteSets, TLC

(* ------------------------------ bounds --------------------------------- *)

\* Longest clip list handed to an export.
MaxClips == 2

\* Generic placements use start_time, end_time in 0..MaxTime ticks.
MaxTime == 3

\* Recording sessions started in one run of the application.
MaxSessions == 2

\* Capture sources added in one run of the application.
MaxSources == 2

(* ------------------------- program constants --------------------------- *)

\* 1.0 s in ticks: the slack added to the black source's duration.
OneSecond == 10

\* 0.1 s in ticks: the padding added to the output duration limit.
Padding == 1

(* ------------------------------- f64 ----------------------------------- *)

Fin(n) == [k |-> "fin", v |-> n]
NaN == [k |-> "nan", v |-> 0]
PosInf == [k |-> "inf", v |-> 0]
NegInf == [k |-> "ninf", v |-> 0]

Sec(n) == Fin(n * OneSecond)

IsNaN(a) == a.k = "nan"
IsFinite(a) == a.k = "fin"

Rank(a) == CASE a.k = "ninf" -> 0 [] a.k = "fin" -> 1 [] OTHER -> 2

\* a < b on f64: false whenever either side is NaN.
FLt(a, b) ==
    /\ ~IsNaN(a)
    /\ ~IsNaN(b)
    /\ \/ Rank(a) < Rank(b)
       \/ IsFinite(a) /\ IsFinite(b) /\ a.v < b.v

FGt(a, b) == FLt(b, a)

\* f64::partial_cmp: None when either side is NaN.
partial_cmp(a, b) ==
    IF IsNaN(a) \/ IsNaN(b) THEN "None"
    ELSE IF FLt(a, b) THEN "Less"
    ELSE IF FLt(b, a) THEN "Greater"
    ELSE "Equal"

\* a - b on f64.
FSub(a, b) ==
    IF IsNaN(a) \/ IsNaN(b) THEN NaN
    ELSE IF IsFinite(a) /\ IsFinite(b) THEN Fin(a.v - b.v)
    ELSE IF IsFinite(b) THEN a
    ELSE IF IsFinite(a) THEN (IF b.k = "inf" THEN NegInf ELSE PosInf)
    ELSE IF a.k = b.k THEN NaN
    ELSE a

\* a + c for a finite constant c of ticks.
FAddTicks(a, c) == IF IsFinite(a) THEN Fin(a.v + c) ELSE a

\* f64::max: a NaN operand is ignored.
FMax(a, b) ==
    IF IsNaN(a) THEN b
    ELSE IF IsNaN(b) THEN a
    ELSE IF FLt(a, b) THEN b ELSE a

(* ------------------------------ clips ---------------------------------- *)

\* VideoClip: file_path is the clip's own source; duration is
\* metadata.duration.  The fields the export never reads are left out.
\* has_audio is no field of VideoClip: it says whether the file at
\* file_path holds an audio stream, which the export never asks.
MkClip(s, e, ti, to, d) ==
    [file_path |-> 0, start_time |-> s, end_time |-> e,
     trim_in |-> ti, trim_out |-> to, duration |-> d, has_audio |-> TRUE]

\* Placements over the tick grid, start_time <= end_time, the trim window
\* matching the placement.
PlacedClips ==
    { MkClip(Fin(p[1]), Fin(p[2]), Fin(0), Fin(p[2] - p[1]), Fin(p[2] - p[1])) :
        p \in { q \in (0..MaxTime) \X (0..MaxTime) : q[1] <= q[2] } }

\* Clips that break an invariant of the clip model, or whose trim window
\* does not match the placement: trim longer than the placement, trim
\* shorter, trim_out < trim_in, trim_out beyond the source's duration,
\* negative trim_in, start_time > end_time.
MismatchedClips ==
    { MkClip(Fin(0), Fin(2), Fin(0), Fin(3), Fin(3)),
      MkClip(Fin(0), Fin(2), Fin(1), Fin(2), Fin(2)),
      MkClip(Fin(0), Fin(2), Fin(2), Fin(1), Fin(2)),
      MkClip(Fin(0), Fin(2), Fin(0), Fin(2), Fin(1)),
      MkClip(Fin(0), Fin(2), Fin(0 - 1), Fin(1), Fin(2)),
      MkClip(Fin(2), Fin(1), Fin(0), Fin(1), Fin(1)) }

\* start_time negative, NaN or infinite.
SpecialStartClips ==
    { MkClip(Fin(0 - 1), Fin(2), Fin(0), Fin(3), Fin(3)),
      MkClip(NaN, Fin(2), Fin(0), Fin(2), Fin(2)),
      MkClip(PosInf, Fin(2), Fin(0), Fin(2), Fin(2)) }

\* The clips of the specification's examples: A [0,2), B [5,7) and the
\* overlapping pair [0,5), [3,7), in seconds.
ClipA == MkClip(Sec(0), Sec(2), Sec(0), Sec(2), Sec(2))
ClipB == MkClip(Sec(5), Sec(7), Sec(0), Sec(2), Sec(2))
ClipX == MkClip(Sec(0), Sec(5), Sec(0), Sec(5), Sec(5))
ClipY == MkClip(Sec(3), Sec(7), Sec(0), Sec(4), Sec(4))

ExampleClips == {ClipA, ClipB, ClipX, ClipY}

\* A clip whose source is video only.
SilentClips == { [MkClip(Fin(0), Fin(2), Fin(0), Fin(2), Fin(2)) EXCEPT !.has_audio = FALSE] }

\* A clip placed wholly before the origin of the timeline.
NegativeEndClips == { MkClip(Fin(0 - 2), Fin(0 - 1), Fin(0), Fin(1), Fin(1)) }

\* A clip that starts 2 s in and ends at 0.2 s.
LateStartClips == { MkClip(Sec(2), Fin(2), Fin(0), Fin(2), Fin(2)) }

ClipShapes ==
    PlacedClips \cup MismatchedClips \cup SpecialStartClips \cup ExampleClips
        \cup SilentClips \cup NegativeEndClips \cup LateStartClips

\* A caller's list: the clip at position k references its own file, k.
WithPaths(shapes) ==
    [k \in 1..Len(shapes) |-> [shapes[k] EXCEPT !.file_path = k]]

Resolutions == {"720p", "1080p", "source"}

\* The resolution requests tried with a list of n clips: every request for
\* the lists of at most one clip, the default for the longer ones.
ResolutionsFor(n) == IF n <= 1 THEN Resolutions ELSE {"1080p"}

OutputPath == "out.mp4"

(* ------------------- timeline export: pure helpers --------------------- *)

Label(name, n) == <<name, n>>

\* EmptyRejected with the early return lost.
EmptyRejectedNever(clips) == FALSE

\* Line 139: the empty-list test.
EmptyRejected(clips) == Len(clips) = 0

\* is_less taking equal start_times for less: the sort is no longer stable.
is_less_or_equal(a, b) == partial_cmp(a.start_time, b.start_time) \in {"Less", "Equal"}

\* The comparator of line 145, a.start_time.partial_cmp(&b.start_time),
\* as the "is less" test the sort applies to it.
is_less(a, b) == partial_cmp(a.start_time, b.start_time) = "Less"

\* .unwrap() of line 145: the comparator panics on the first comparison
\* with a NaN operand.  A sort of two or more elements compares every
\* element at least once; a sort of fewer compares nothing.
SortPanics(clips) ==
    /\ Len(clips) >= 2
    /\ \E k \in 1..Len(clips) : IsNaN(clips[k].start_time)

\* slice::sort_by on a short slice: insertion sort, each element moved
\* left past the elements it is less than, so equal elements keep their
\* order.
RECURSIVE InsertTail(_, _)
InsertTail(s, c) ==
    IF Len(s) = 0 THEN <<c>>
    ELSE IF is_less(c, s[Len(s)])
         THEN InsertTail(SubSeq(s, 1, Len(s) - 1), c) \o <<s[Len(s)]>>
         ELSE s \o <<c>>

RECURSIVE sort_by(_)
sort_by(s) ==
    IF Len(s) = 0 THEN <<>>
    ELSE InsertTail(sort_by(SubSeq(s, 1, Len(s) - 1)), s[Len(s)])

\* Lines 168-172.
ResolveResolution(r) ==
    CASE r = "720p" -> <<1280, 720>>
      [] r = "1080p" -> <<1920, 1080>>
      [] OTHER -> <<1920, 1080>>

\* Lines 175 and 267-269: iter().map(|c| c.end_time).fold(0.0, f64::max).
RECURSIVE MaxEndTime(_)
MaxEndTime(clips) ==
    IF Len(clips) = 0 THEN Fin(0)
    ELSE FMax(MaxEndTime(SubSeq(clips, 1, Len(clips) - 1)), clips[Len(clips)].end_time)

\* BlackSources with the black video at a fixed 1920x1080.
BlackSourcesFullHD(w, h, maxdur) ==
    << [f |-> <<"color", "setsar">>, in |-> <<>>, start |-> Fin(0),
        duration |-> maxdur, size |-> <<1920, 1080>>, out |-> <<Label("black_v", 0)>>],
       [f |-> <<"anullsrc">>, in |-> <<>>, start |-> Fin(0),
        duration |-> PosInf, size |-> <<0, 0>>, out |-> <<Label("black_a", 0)>>] >>

\* Lines 176-185: the two shared filler sources.
BlackSources(w, h, maxdur) ==
    << [f |-> <<"color", "setsar">>, in |-> <<>>, start |-> Fin(0),
        duration |-> maxdur, size |-> <<w, h>>, out |-> <<Label("black_v", 0)>>],
       [f |-> <<"anullsrc">>, in |-> <<>>, start |-> Fin(0),
        duration |-> PosInf, size |-> <<0, 0>>, out |-> <<Label("black_a", 0)>>] >>

\* GapNeeded with >= for >: a gap of no duration where a clip starts at
\* the cursor.
GapNeededAtCursor(clip, cursor) == ~FLt(clip.start_time, cursor) /\ ~IsNaN(clip.start_time)

\* Line 197: is there a gap before the clip?
GapNeeded(clip, cursor) == FGt(clip.start_time, cursor)

\* Line 198.
GapDuration(clip, cursor) == FSub(clip.start_time, cursor)

\* TrimDuration taken from the placement in place of the trim window.
TrimDurationOfPlacement(clip) == FSub(clip.end_time, clip.start_time)

\* Line 194.
TrimDuration(clip) == FSub(clip.trim_out, clip.trim_in)

\* Line 230: where the cursor stands after the clip.
CursorAfter(clip) == clip.end_time

\* Lines 192-231: one pass of the loop body, for the clip at 0-based
\* index idx of sorted_clips.  st holds the loop's mutable locals.
LoopBody(st, idx, clip, w, h) ==
    LET n == st.segment_count
        gap == GapNeeded(clip, st.current_time)
        gd == GapDuration(clip, st.current_time)
        gapFilters ==
            << [f |-> <<"trim", "setsar">>, in |-> <<Label("black_v", 0)>>,
                start |-> Fin(0), duration |-> gd, size |-> <<0, 0>>,
                out |-> <<Label("gap_v", n)>>],
               [f |-> <<"atrim">>, in |-> <<Label("black_a", 0)>>,
                start |-> Fin(0), duration |-> gd, size |-> <<0, 0>>,
                out |-> <<Label("gap_a", n)>>] >>
        gapSegment ==
            [kind |-> "gap", v |-> Label("gap_v", n), a |-> Label("gap_a", n),
             duration |-> gd, clip |-> 0 - 1]
        clipFilters ==
            << [f |-> <<"trim", "setpts", "scale", "pad", "setsar">>,
                in |-> <<Label("in_v", idx)>>,
                start |-> clip.trim_in, duration |-> TrimDuration(clip),
                size |-> <<w, h>>, out |-> <<Label("v_trimmed", idx)>>],
               [f |-> <<"atrim", "asetpts">>,
                in |-> <<Label("in_a", idx)>>,
                start |-> clip.trim_in, duration |-> TrimDuration(clip),
                size |-> <<0, 0>>, out |-> <<Label("a_trimmed", idx)>>] >>
        clipSegment ==
            [kind |-> "clip", v |-> Label("v_trimmed", idx), a |-> Label("a_trimmed", idx),
             duration |-> TrimDuration(clip), clip |-> idx]
    IN  [current_time |-> CursorAfter(clip),
         segment_count |-> IF gap THEN n + 1 ELSE n,
         timeline_segments |->
             st.timeline_segments \o (IF gap THEN <<gapSegment>> ELSE <<>>) \o <<clipSegment>>,
         filter_parts |->
             st.filter_parts \o (IF gap THEN gapFilters ELSE <<>>) \o clipFilters]

\* ConcatFilter with n counting the clips only, the gaps forgotten.
ConcatFilterCountsClips(segments) ==
    [f |-> <<"concat">>,
     in |-> [k \in 1..(2 * Len(segments)) |->
                IF k % 2 = 1 THEN segments[(k + 1) \div 2].v ELSE segments[k \div 2].a],
     start |-> Fin(0), duration |-> Fin(0),
     size |-> <<Cardinality({k \in 1..Len(segments) : segments[k].kind = "clip"}), 0>>,
     out |-> <<Label("outv", 0), Label("outa", 0)>>]

\* Lines 234-239: the concat node over the planned segments; size holds n.
ConcatFilter(segments) ==
    [f |-> <<"concat">>,
     in |-> [k \in 1..(2 * Len(segments)) |->
                IF k % 2 = 1 THEN segments[(k + 1) \div 2].v ELSE segments[k \div 2].a],
     start |-> Fin(0), duration |-> Fin(0), size |-> <<Len(segments), 0>>,
     out |-> <<Label("outv", 0), Label("outa", 0)>>]

\* Line 272.
TotalDuration(clips) == FAddTicks(MaxEndTime(clips), Padding)

(* ------------------------ timeline export: state ----------------------- *)

VARIABLES
    pc,                 \* where the call stands
    params,             \* ExportParams
    sorted_clips,
    input_files,        \* the paths following -i in args
    width, height,
    max_duration,
    filter_parts,
    timeline_segments,
    current_time,
    segment_count,
    i,                  \* clips the loop has passed
    args,               \* what follows the inputs in args
    result,             \* what the call returned
    engine_calls,       \* Command::new("ffmpeg")...output() calls made
    output,             \* what the last of these calls gave back
    output_file,        \* the file at output_path: "none", "partial", "complete"
    cancel_requested    \* the caller has asked for the running export to stop

tvars == <<pc, params, sorted_clips, input_files, width, height, max_duration,
           filter_parts, timeline_segments, current_time, segment_count, i,
           args, result, engine_calls, output, output_file, cancel_requested>>

VARIABLES
    cpc,            \* where each invocation stands
    cparams,        \* each invocation's ExportParams
    concat_file,    \* the file <temp_dir>/concat.txt
    concat_content, \* each invocation's local concat_content
    cargs,          \* each invocation's resolution_args
    engine_input,   \* what each invocation's ffmpeg found at concat.txt
    cresult,        \* what each invocation returned
    cwrites,        \* fs::write calls each invocation has made
    cspawns,        \* ffmpeg runs each invocation has asked for
    cremoves        \* fs::remove_file calls each invocation has made

cvars == <<cpc, cparams, concat_file, concat_content, cargs, engine_input,
           cresult, cwrites, cspawns, cremoves>>

\* recording.rs: the two registries of the process and the commands on them.
VARIABLES
    rpc,                \* which registry's commands are being called
    RECORDING_SESSIONS, \* session id -> RecordingSession
    CAPTURE_SOURCES,    \* source id -> CaptureSource
    signalled,          \* process ids that were sent SIGTERM
    uuids,              \* source ids handed out by Uuid::new_v4 so far
    last_call           \* the last registry command that returned, and what

rvars == <<rpc, RECORDING_SESSIONS, CAPTURE_SOURCES, signalled, uuids, last_call>>

\* What a call returned: value is the Ok value or the fixed head of the
\* error message, diagnostic the text formatted into the message after it.
NoResult == [kind |-> "none", value |-> "", diagnostic |-> ""]
Ok(v) == [kind |-> "Ok", value |-> v, diagnostic |-> ""]
Err(m) == [kind |-> "Err", value |-> m, diagnostic |-> ""]
ErrWith(m, d) == [kind |-> "Err", value |-> m, diagnostic |-> d]
Panicked == [kind |-> "panic", value |-> "unwrap on None", diagnostic |-> ""]

\* What Command::output() gave back: status says whether the engine
\* started and how it exited, diagnostic is the io::Error of a failed
\* start or else the captured stderr.
NoOutput == [status |-> "none", diagnostic |-> ""]

NoArgs == [filter_complex |-> <<>>, map |-> <<>>, t |-> Fin(0), output |-> ""]

TimelineLocalsInit ==
    /\ sorted_clips = <<>>
    /\ input_files = <<>>
    /\ width = 0
    /\ height = 0
    /\ max_duration = Fin(0)
    /\ filter_parts = <<>>
    /\ timeline_segments = <<>>
    /\ current_time = Fin(0)
    /\ segment_count = 0
    /\ i = 0
    /\ args = NoArgs
    /\ result = NoResult
    /\ engine_calls = 0
    /\ output = NoOutput
    /\ output_file = "none"
    /\ cancel_requested = FALSE

InitTimeline ==
    /\ pc = "start"
    /\ \E n \in 0..MaxClips : \E sh \in [1..n -> ClipShapes] : \E r \in ResolutionsFor(n) :
          params = [clips |-> WithPaths(sh), output_path |-> OutputPath, resolution |-> r]
    /\ TimelineLocalsInit

\* An export called while the registry commands are: clip B [5,7) given
\* before clip A [0,2).
InitTimelineBeside ==
    /\ pc = "start"
    /\ params = [clips |-> WithPaths(<<ClipB, ClipA>>), output_path |-> OutputPath,
                 resolution |-> "1080p"]
    /\ TimelineLocalsInit

TimelineIdle ==
    /\ pc = "idle"
    /\ params = [clips |-> <<>>, output_path |-> "", resolution |-> ""]
    /\ TimelineLocalsInit

(* ----------------------- timeline export: steps ------------------------ *)

\* Lines 139-141.
CheckEmpty ==
    /\ pc = "start"
    /\ IF EmptyRejected(params.clips)
       THEN /\ result' = Err("No clips to export")
            /\ pc' = "done"
       ELSE /\ pc' = "sort"
            /\ UNCHANGED result
    /\ UNCHANGED <<params, sorted_clips, input_files, width, height, max_duration,
                   filter_parts, timeline_segments, current_time, segment_count, i,
                   args, engine_calls, output,
                   output_file, cancel_requested>>
    /\ UNCHANGED <<cvars, rvars>>

\* Sort with the caller's list sorted in place and no copy made.
SortInPlace ==
    /\ pc = "sort"
    /\ IF SortPanics(params.clips)
       THEN /\ pc' = "panicked"
            /\ result' = Panicked
            /\ UNCHANGED <<params, sorted_clips>>
       ELSE /\ pc' = "setup"
            /\ params' = [params EXCEPT !.clips = sort_by(params.clips)]
            /\ sorted_clips' = params'.clips
            /\ UNCHANGED result
    /\ UNCHANGED <<input_files, width, height, max_duration, filter_parts,
                   timeline_segments, current_time, segment_count, i, args,
                   engine_calls, output, output_file, cancel_requested>>
    /\ UNCHANGED <<cvars, rvars>>

\* Lines 144-145.
Sort ==
    /\ pc = "sort"
    /\ IF SortPanics(params.clips)
       THEN /\ pc' = "panicked"
            /\ result' = Panicked
            /\ UNCHANGED sorted_clips
       ELSE /\ pc' = "setup"
            /\ sorted_clips' = sort_by(params.clips)
            /\ UNCHANGED result
    /\ UNCHANGED <<params, input_files, width, height, max_duration, filter_parts,
                   timeline_segments, current_time, segment_count, i, args,
                   engine_calls, output,
                   output_file, cancel_requested>>
    /\ UNCHANGED <<cvars, rvars>>

\* Lines 156-190.
Setup ==
    /\ pc = "setup"
    /\ input_files' = [k \in 1..Len(sorted_clips) |-> sorted_clips[k].file_path]
    /\ width' = ResolveResolution(params.resolution)[1]
    /\ height' = ResolveResolution(params.resolution)[2]
    /\ max_duration' = FAddTicks(MaxEndTime(sorted_clips), OneSecond)
    /\ filter_parts' = BlackSources(width', height', max_duration')
    /\ timeline_segments' = <<>>
    /\ current_time' = Fin(0)
    /\ segment_count' = 0
    /\ i' = 0
    /\ pc' = "loop"
    /\ UNCHANGED <<params, sorted_clips, args, result, engine_calls, output,
                   output_file, cancel_requested>>
    /\ UNCHANGED <<cvars, rvars>>

\* Lines 192-231, one clip.
LoopIter ==
    /\ pc = "loop"
    /\ i < Len(sorted_clips)
    /\ LET st == LoopBody([current_time |-> current_time,
                           segment_count |-> segment_count,
                           timeline_segments |-> timeline_segments,
                           filter_parts |-> filter_parts],
                          i, sorted_clips[i + 1], width, height)
       IN  /\ current_time' = st.current_time
           /\ segment_count' = st.segment_count
           /\ timeline_segments' = st.timeline_segments
           /\ filter_parts' = st.filter_parts
    /\ i' = i + 1
    /\ UNCHANGED <<pc, params, sorted_clips, input_files, width, height,
                   max_duration, args, result, engine_calls, output,
                   output_file, cancel_requested>>
    /\ UNCHANGED <<cvars, rvars>>

\* Lines 234-278.
Assemble ==
    /\ pc = "loop"
    /\ i = Len(sorted_clips)
    /\ filter_parts' = Append(filter_parts, ConcatFilter(timeline_segments))
    /\ args' = [filter_complex |-> filter_parts',
                map |-> <<Label("outv", 0), Label("outa", 0)>>,
                t |-> TotalDuration(sorted_clips),
                output |-> params.output_path]
    /\ pc' = "exec"
    /\ UNCHANGED <<params, sorted_clips, input_files, width, height, max_duration,
                   timeline_segments, current_time, segment_count, i, result,
                   engine_calls, output,
                   output_file, cancel_requested>>
    /\ UNCHANGED <<cvars, rvars>>

\* What the engine may write to stderr.
StderrTexts == {"", "Invalid data found when processing input"}

\* The ways a run of the engine can end.
EngineOutcomes ==
    { [status |-> "spawn_failed", diagnostic |-> "No such file or directory"],
      [status |-> "exit_zero", diagnostic |-> ""] }
        \cup { [status |-> "exit_nonzero", diagnostic |-> d] : d \in StderrTexts }

\* The filter graph names the audio stream of an input that has none:
\* ffmpeg refuses such a graph and exits non-zero.
MissingStream(graph, clips) ==
    \E k \in 1..Len(graph) : \E j \in 1..Len(graph[k].in) :
        /\ graph[k].in[j][1] = "in_a"
        /\ ~clips[graph[k].in[j][2] + 1].has_audio

EngineOutcomesFor(graph, clips) ==
    IF MissingStream(graph, clips)
    THEN { o \in EngineOutcomes : o.status # "exit_zero" }
    ELSE EngineOutcomes

\* ExecuteResult with the captured stderr left out of the error.
ExecuteResultBare(out, output_path) ==
    CASE out.status = "spawn_failed" -> ErrWith("Failed to execute ffmpeg: ", out.diagnostic)
      [] out.status = "exit_nonzero" -> Err("ffmpeg failed")
      [] OTHER -> Ok(output_path)

\* Lines 280-292: what the call returns for what output() gave back.
ExecuteResult(out, output_path) ==
    CASE out.status = "spawn_failed" -> ErrWith("Failed to execute ffmpeg: ", out.diagnostic)
      [] out.status = "exit_nonzero" -> ErrWith("ffmpeg failed: ", out.diagnostic)
      [] OTHER -> Ok(output_path)

\* ExecuteReturns with a failed run tried again.
ExecuteReturnsUnlessFailed(out) == out.status # "exit_nonzero"

\* Lines 280-292: every way output() ends is followed by a return.
ExecuteReturns(out) == TRUE

\* Lines 280-283: Command::new("ffmpeg").args(&args).output() starts the
\* engine, or fails to; a started engine opens output_path (-y) and the
\* call waits in output() for it to exit.
ExecuteStart ==
    /\ pc = "exec"
    /\ engine_calls' = engine_calls + 1
    /\ \/ \E out \in {o \in EngineOutcomes : o.status = "spawn_failed"} :
             /\ output' = out
             /\ result' = ExecuteResult(out, params.output_path)
             /\ pc' = IF ExecuteReturns(out) THEN "done" ELSE "exec"
             /\ UNCHANGED output_file
       \/ /\ pc' = "running"
          /\ output_file' = "partial"
          /\ UNCHANGED <<output, result>>
    /\ UNCHANGED <<params, sorted_clips, input_files, width, height, max_duration,
                   filter_parts, timeline_segments, current_time, segment_count, i,
                   args, cancel_requested>>
    /\ UNCHANGED <<cvars, rvars>>

\* Lines 138-293: the command keeps no handle of the engine and the crate
\* has no command to stop an export; a caller's request to cancel, made
\* while output() waits, is read by nothing.
RequestCancel ==
    /\ pc = "running"
    /\ ~cancel_requested
    /\ cancel_requested' = TRUE
    /\ UNCHANGED <<pc, params, sorted_clips, input_files, width, height, max_duration,
                   filter_parts, timeline_segments, current_time, segment_count, i,
                   args, result, engine_calls, output, output_file>>
    /\ UNCHANGED <<cvars, rvars>>

\* Lines 280-292: the engine exits and output() returns; the file of an
\* engine that exited zero is complete, what an engine that failed has
\* written so far stays where it is.
ExecuteFinish ==
    /\ pc = "running"
    /\ \E out \in {o \in EngineOutcomesFor(args.filter_complex, sorted_clips) :
                      o.status # "spawn_failed"} :
          /\ output' = out
          /\ result' = ExecuteResult(out, params.output_path)
          /\ pc' = IF ExecuteReturns(out) THEN "done" ELSE "exec"
          /\ output_file' = IF out.status = "exit_zero" THEN "complete" ELSE "partial"
    /\ UNCHANGED <<params, sorted_clips, input_files, width, height, max_duration,
                   filter_parts, timeline_segments, current_time, segment_count, i,
                   args, engine_calls, cancel_requested>>
    /\ UNCHANGED <<cvars, rvars>>

(* ------------------------ concat export: state ------------------------- *)

\* Two concurrent invocations of the command.
Exports == {"A", "B"}

\* The paths of one invocation's clips, apart from the other invocation's.
PathBase(p) == IF p = "A" THEN 0 ELSE MaxClips

ConcatClipShapes == {ClipA, ClipB}

ConcatWithPaths(p, shapes) ==
    [k \in 1..Len(shapes) |-> [shapes[k] EXCEPT !.file_path = PathBase(p) + k]]

NoFile == [exists |-> FALSE, lines |-> <<>>]
FileWith(lines) == [exists |-> TRUE, lines |-> lines]

NotRead == [read |-> FALSE, file |-> NoFile]

ConcatLocalsInit ==
    /\ concat_file = NoFile
    /\ concat_content = [p \in Exports |-> <<>>]
    /\ cargs = [p \in Exports |-> <<>>]
    /\ engine_input = [p \in Exports |-> NotRead]
    /\ cresult = [p \in Exports |-> NoResult]
    /\ cwrites = [p \in Exports |-> 0]
    /\ cspawns = [p \in Exports |-> 0]
    /\ cremoves = [p \in Exports |-> 0]

ConcatInputs(p) ==
    UNION { { [clips |-> ConcatWithPaths(p, sh), output_path |-> OutputPath,
               resolution |-> r] :
                sh \in [1..n -> ConcatClipShapes], r \in ResolutionsFor(n) } :
            n \in 0..MaxClips }

InitConcat ==
    /\ cpc = [p \in Exports |-> "start"]
    /\ cparams \in [Exports -> UNION {ConcatInputs(p) : p \in Exports}]
    /\ \A p \in Exports : cparams[p] \in ConcatInputs(p)
    /\ ConcatLocalsInit

ConcatIdle ==
    /\ cpc = [p \in Exports |-> "idle"]
    /\ cparams = [p \in Exports |-> [clips |-> <<>>, output_path |-> "", resolution |-> ""]]
    /\ ConcatLocalsInit

(* ------------------------ concat export: steps ------------------------- *)

\* Lines 145-149: one "file '<path>'" line per clip, in params.clips order.
ConcatContent(clips) == [k \in 1..Len(clips) |-> clips[k].file_path]

\* Lines 155-159.
ResolutionArgs(r) ==
    CASE r = "720p" -> << [flag |-> "-vf", filter |-> "scale", w |-> 1280, h |-> 720] >>
      [] r = "1080p" -> << [flag |-> "-vf", filter |-> "scale", w |-> 1920, h |-> 1080] >>
      [] OTHER -> <<>>

\* Lines 139-141.
CCheckEmpty(p) ==
    /\ cpc[p] = "start"
    /\ IF EmptyRejected(cparams[p].clips)
       THEN /\ cresult' = [cresult EXCEPT ![p] = Err("No clips to export")]
            /\ cpc' = [cpc EXCEPT ![p] = "done"]
       ELSE /\ cpc' = [cpc EXCEPT ![p] = "write"]
            /\ UNCHANGED cresult
    /\ UNCHANGED <<cparams, concat_file, concat_content, cargs, engine_input,
                   cwrites, cspawns, cremoves>>
    /\ UNCHANGED <<tvars, rvars>>

\* Lines 144-152: the descriptor is written to the one fixed path; the
\* write replaces whatever the file held, or fails.
CWrite(p) ==
    /\ cpc[p] = "write"
    /\ concat_content' = [concat_content EXCEPT ![p] = ConcatContent(cparams[p].clips)]
    /\ cwrites' = [cwrites EXCEPT ![p] = @ + 1]
    /\ \E written \in BOOLEAN :
          IF written
          THEN /\ concat_file' = FileWith(concat_content'[p])
               /\ cpc' = [cpc EXCEPT ![p] = "spawn"]
               /\ UNCHANGED cresult
          ELSE /\ cresult' = [cresult EXCEPT ![p] = Err("Failed to write concat file")]
               /\ cpc' = [cpc EXCEPT ![p] = "done"]
               /\ UNCHANGED concat_file
    /\ UNCHANGED <<cparams, cargs, engine_input, cspawns, cremoves>>
    /\ UNCHANGED <<tvars, rvars>>

\* Lines 155-177: the arguments, then Command::new("ffmpeg")...output(),
\* which either fails to start the engine or starts it and waits.
CSpawn(p) ==
    /\ cpc[p] = "spawn"
    /\ cargs' = [cargs EXCEPT ![p] = ResolutionArgs(cparams[p].resolution)]
    /\ cspawns' = [cspawns EXCEPT ![p] = @ + 1]
    /\ \E started \in BOOLEAN :
          IF started
          THEN /\ cpc' = [cpc EXCEPT ![p] = "running"]
               /\ UNCHANGED cresult
          ELSE /\ cresult' = [cresult EXCEPT ![p] = Err("Failed to execute ffmpeg")]
               /\ cpc' = [cpc EXCEPT ![p] = "done"]
    /\ UNCHANGED <<cparams, concat_file, concat_content, engine_input, cwrites,
                   cremoves>>
    /\ UNCHANGED <<tvars, rvars>>

\* The engine started at line 174 opens "-i <temp_dir>/concat.txt" and
\* reads whatever the path holds at that moment.
CEngineRead(p) ==
    /\ cpc[p] = "running"
    /\ engine_input' = [engine_input EXCEPT ![p] = [read |-> TRUE, file |-> concat_file]]
    /\ cpc' = [cpc EXCEPT ![p] = "encoding"]
    /\ UNCHANGED <<cparams, concat_file, concat_content, cargs, cresult, cwrites,
                   cspawns, cremoves>>
    /\ UNCHANGED <<tvars, rvars>>

\* Lines 177-181: the engine exits; a missing descriptor is a failure.
CEngineExit(p) ==
    /\ cpc[p] = "encoding"
    /\ \E success \in (IF engine_input[p].file.exists THEN BOOLEAN ELSE {FALSE}) :
          IF success
          THEN /\ cpc' = [cpc EXCEPT ![p] = "cleanup"]
               /\ UNCHANGED cresult
          ELSE /\ cresult' = [cresult EXCEPT ![p] = Err("ffmpeg failed")]
               /\ cpc' = [cpc EXCEPT ![p] = "done"]
    /\ UNCHANGED <<cparams, concat_file, concat_content, cargs, engine_input,
                   cwrites, cspawns, cremoves>>
    /\ UNCHANGED <<tvars, rvars>>

\* Lines 183-186: the file at the fixed path is removed, an error ignored.
CCleanup(p) ==
    /\ cpc[p] = "cleanup"
    /\ concat_file' = NoFile
    /\ cremoves' = [cremoves EXCEPT ![p] = @ + 1]
    /\ cresult' = [cresult EXCEPT ![p] = Ok(cparams[p].output_path)]
    /\ cpc' = [cpc EXCEPT ![p] = "done"]
    /\ UNCHANGED <<cparams, concat_content, cargs, engine_input, cwrites, cspawns>>
    /\ UNCHANGED <<tvars, rvars>>

(* ------------------------ recording.rs: state -------------------------- *)

\* The recording types stop_recording is called with; "both" is named by
\* RecordingSession's comment, no command starts such a session.
RecordingTypes == {"screen", "webcam", "both"}

SourceTypes == {"monitor", "webcam"}

\* The x, y, width, height a source is added with or moved to.
NoRect == [x |-> 0, y |-> 0, width |-> 0, height |-> 0]
Rects == { [x |-> 0, y |-> 0, width |-> 2, height |-> 2],
           [x |-> 1, y |-> 0, width |-> 1, height |-> 2] }

\* Lines 188-194 and 245-251.  The output path is made of the type and
\* the id; the process id is the child's.
NewSession(id, t) ==
    [id |-> id, output_path |-> <<t, id>>, process_id |-> id,
     recording_type |-> t, is_active |-> TRUE]

\* Lines 89-99.
NewSource(id, st, r) ==
    [id |-> id, name |-> st, source_type |-> st, device_id |-> st,
     x |-> r.x, y |-> r.y, width |-> r.width, height |-> r.height,
     is_active |-> TRUE]

\* HashMap::insert and HashMap::remove.
Insert(map, k, v) == [x \in DOMAIN map \cup {k} |-> IF x = k THEN v ELSE map[x]]
Remove(map, k) == [x \in DOMAIN map \ {k} |-> map[x]]

\* What a command returned: Ok (with the id it names, if any) or Err.
NoCall ==
    [op |-> "none", type |-> "", source_id |-> 0, rect |-> NoRect,
     ok |-> TRUE, id |-> 0, msg |-> ""]
CallOk(op, t, sid, r, id, m) ==
    [op |-> op, type |-> t, source_id |-> sid, rect |-> r,
     ok |-> TRUE, id |-> id, msg |-> m]
CallErr(op, t, sid, r, m) ==
    [op |-> op, type |-> t, source_id |-> sid, rect |-> r,
     ok |-> FALSE, id |-> 0, msg |-> m]

RegistryEmpty ==
    /\ RECORDING_SESSIONS = <<>>
    /\ CAPTURE_SOURCES = <<>>
    /\ signalled = {}
    /\ uuids = 0
    /\ last_call = NoCall

RegistryIdle == rpc = "idle" /\ RegistryEmpty

InitRegistry == rpc \in {"sessions", "sources"} /\ RegistryEmpty

(* ------------------------ recording.rs: steps -------------------------- *)

\* Lines 147-202 and 204-259: the two start commands differ in the type
\* and the ffmpeg input only.  A start fails when HOME is unset, the
\* Desktop directory cannot be made or ffmpeg cannot be started; else the
\* session is inserted under a fresh id.
StartRecording(op, t) ==
    /\ rpc = "sessions"
    /\ Cardinality(DOMAIN RECORDING_SESSIONS) < MaxSessions
    /\ \/ /\ last_call' = CallErr(op, t, 0, NoRect, "Failed to start")
          /\ UNCHANGED RECORDING_SESSIONS
       \/ LET id == Cardinality(DOMAIN RECORDING_SESSIONS) + 1
          IN  /\ RECORDING_SESSIONS' = Insert(RECORDING_SESSIONS, id, NewSession(id, t))
              /\ last_call' = CallOk(op, t, 0, NoRect, id, "")
    /\ UNCHANGED <<rpc, CAPTURE_SOURCES, signalled, uuids>>
    /\ UNCHANGED <<tvars, cvars>>

start_screen_recording == StartRecording("start_screen_recording", "screen")

start_webcam_recording == StartRecording("start_webcam_recording", "webcam")

\* StopCandidates without the test of the type.
StopCandidatesOfAnyType(sessions, t) ==
    {id \in DOMAIN sessions : sessions[id].is_active}

\* Line 267: the sessions the loop of stop_recording stops at.
StopCandidates(sessions, t) ==
    {id \in DOMAIN sessions :
        sessions[id].recording_type = t /\ sessions[id].is_active}

\* Stopped with the flag left as it was.
StoppedInNameOnly(session) == session

\* Line 276.
Stopped(session) == [session EXCEPT !.is_active = FALSE]

\* Lines 261-282: the first session iter_mut() yields that is active and
\* of the type is sent SIGTERM and marked; a HashMap yields in no order
\* the caller knows.
stop_recording(t) ==
    /\ rpc = "sessions"
    /\ IF StopCandidates(RECORDING_SESSIONS, t) = {}
       THEN /\ last_call' = CallErr("stop_recording", t, 0, NoRect,
                                    "No active recording found")
            /\ UNCHANGED <<RECORDING_SESSIONS, signalled>>
       ELSE \E id \in StopCandidates(RECORDING_SESSIONS, t) :
               /\ signalled' = signalled \cup {RECORDING_SESSIONS[id].process_id}
               /\ RECORDING_SESSIONS' =
                     [RECORDING_SESSIONS EXCEPT ![id] = Stopped(@)]
               /\ last_call' = CallOk("stop_recording", t, 0, NoRect, id,
                                      "Stopped recording: ")
    /\ UNCHANGED <<rpc, CAPTURE_SOURCES, uuids>>
    /\ UNCHANGED <<tvars, cvars>>

\* Lines 298-302.
get_recording_status ==
    /\ rpc = "sessions"
    /\ last_call' = CallOk("get_recording_status", "", 0, NoRect, 0, "")
    /\ UNCHANGED <<rpc, RECORDING_SESSIONS, CAPTURE_SOURCES, signalled, uuids>>
    /\ UNCHANGED <<tvars, cvars>>

\* Lines 77-107.
add_capture_source(st, r) ==
    /\ rpc = "sources"
    /\ uuids < MaxSources
    /\ uuids' = uuids + 1
    /\ CAPTURE_SOURCES' = Insert(CAPTURE_SOURCES, uuids', NewSource(uuids', st, r))
    /\ last_call' = CallOk("add_capture_source", st, 0, r, uuids', "")
    /\ UNCHANGED <<rpc, RECORDING_SESSIONS, signalled>>
    /\ UNCHANGED <<tvars, cvars>>

\* Repositioned with the source switched off as well.
RepositionedAndOff(source, r) ==
    [source EXCEPT !.x = r.x, !.y = r.y, !.width = r.width, !.height = r.height,
                   !.is_active = FALSE]

\* Lines 120-123.
Repositioned(source, r) ==
    [source EXCEPT !.x = r.x, !.y = r.y, !.width = r.width, !.height = r.height]

\* Lines 109-128.
update_capture_source_position(sid, r) ==
    /\ rpc = "sources"
    /\ IF sid \in DOMAIN CAPTURE_SOURCES
       THEN /\ CAPTURE_SOURCES' = [CAPTURE_SOURCES EXCEPT ![sid] = Repositioned(@, r)]
            /\ last_call' = CallOk("update_capture_source_position", "", sid, r, 0,
                                   "Position updated")
       ELSE /\ last_call' = CallErr("update_capture_source_position", "", sid, r,
                                    "Source not found")
            /\ UNCHANGED CAPTURE_SOURCES
    /\ UNCHANGED <<rpc, RECORDING_SESSIONS, signalled, uuids>>
    /\ UNCHANGED <<tvars, cvars>>

\* Lines 130-139.
remove_capture_source(sid) ==
    /\ rpc = "sources"
    /\ IF sid \in DOMAIN CAPTURE_SOURCES
       THEN /\ CAPTURE_SOURCES' = Remove(CAPTURE_SOURCES, sid)
            /\ last_call' = CallOk("remove_capture_source", "", sid, NoRect, 0,
                                   "Source removed")
       ELSE /\ last_call' = CallErr("remove_capture_source", "", sid, NoRect,
                                    "Source not found")
            /\ UNCHANGED CAPTURE_SOURCES
    /\ UNCHANGED <<rpc, RECORDING_SESSIONS, signalled, uuids>>
    /\ UNCHANGED <<tvars, cvars>>

(* --------------------------- specification ----------------------------- *)

vars == <<tvars, cvars, rvars>>

Init ==
    \/ InitTimeline /\ ConcatIdle /\ RegistryIdle
    \/ TimelineIdle /\ InitConcat /\ RegistryIdle
    \/ InitTimelineBeside /\ ConcatIdle /\ InitRegistry

Next ==
    \/ CheckEmpty
    \/ Sort
    \/ Setup
    \/ LoopIter
    \/ Assemble
    \/ ExecuteStart
    \/ RequestCancel
    \/ ExecuteFinish
    \/ \E p \in Exports : CCheckEmpty(p)
    \/ \E p \in Exports : CWrite(p)
    \/ \E p \in Exports : CSpawn(p)
    \/ \E p \in Exports : CEngineRead(p)
    \/ \E p \in Exports : CEngineExit(p)
    \/ \E p \in Exports : CCleanup(p)
    \/ start_screen_recording
    \/ start_webcam_recording
    \/ \E t \in RecordingTypes : stop_recording(t)
    \/ get_recording_status
    \/ \E st \in SourceTypes : \E r \in Rects : add_capture_source(st, r)
    \/ \E sid \in 1..MaxSources : \E r \in Rects : update_capture_source_position(sid, r)
    \/ \E sid \in 1..MaxSources : remove_capture_source(sid)

Spec == Init /\ [][Next]_vars

\* The steps of the commands are taken once they can be, and a started
\* engine exits; nothing makes a caller ask for a cancellation or call a
\* registry command.
Fairness ==
    /\ WF_vars(CheckEmpty) /\ WF_vars(Sort) /\ WF_vars(Setup)
    /\ WF_vars(LoopIter) /\ WF_vars(Assemble)
    /\ WF_vars(ExecuteStart) /\ WF_vars(ExecuteFinish)
    /\ \A p \in Exports :
          /\ WF_vars(CCheckEmpty(p)) /\ WF_vars(CWrite(p)) /\ WF_vars(CSpawn(p))
          /\ WF_vars(CEngineRead(p)) /\ WF_vars(CEngineExit(p)) /\ WF_vars(CCleanup(p))

FairSpec == Spec /\ Fairness

(* ------------------------------ claims --------------------------------- *)

\* The timeline export has emitted its plan: args is complete.
PlanEmitted == pc \in {"exec", "running"} \/ (pc = "done" /\ engine_calls > 0)

\* The timeline export has passed the sort.
SortDone == pc \in {"setup", "loop", "exec", "running"} \/ (pc = "done" /\ engine_calls > 0)

\* A clip without its path.
Shape(c) == [c EXCEPT !.file_path = 0]

Shapes(clips) == [k \in 1..Len(clips) |-> Shape(clips[k])]

\* Every arrangement of a list.
Arrangements(clips) ==
    { [k \in 1..Len(clips) |-> clips[f[k]]] : f \in Permutations(1..Len(clips)) }

\* a + b on f64.
FAdd(a, b) ==
    IF IsNaN(a) \/ IsNaN(b) THEN NaN
    ELSE IF IsFinite(a) /\ IsFinite(b) THEN Fin(a.v + b.v)
    ELSE IF IsFinite(a) THEN b
    ELSE IF IsFinite(b) THEN a
    ELSE IF a.k = b.k THEN a
    ELSE NaN

RECURSIVE SumDurations(_)
SumDurations(segs) ==
    IF Len(segs) = 0 THEN Fin(0)
    ELSE FAdd(SumDurations(SubSeq(segs, 1, Len(segs) - 1)), segs[Len(segs)].duration)

\* What a segment is at the planning level: a gap of a duration, or the
\* clip at an index of the sorted list.
GapOf(d) == [kind |-> "gap", duration |-> d, clip |-> 0 - 1]
ClipOf(idx) == [kind |-> "clip", duration |-> Fin(0), clip |-> idx]

PlanShape(segs) ==
    [j \in 1..Len(segs) |->
        IF segs[j].kind = "gap" THEN GapOf(segs[j].duration) ELSE ClipOf(segs[j].clip)]

\* C1: a clip set with two clips overlapping in output time after the sort
\* is answered with an error and no plan is emitted for it.
C1_OverlapRejected ==
    (/\ pc \in {"setup", "loop", "exec", "running", "done"}
     /\ \E k \in 1..(Len(sorted_clips) - 1) :
            FGt(sorted_clips[k].end_time, sorted_clips[k + 1].start_time))
    => /\ ~PlanEmitted
       /\ pc = "done" => result.kind = "Err"

\* The cursor the planner holds when it comes to the k-th sorted clip: 0
\* for the first, the end_time of the clip before for the others.
CursorBefore(k) == IF k = 1 THEN Fin(0) ELSE sorted_clips[k - 1].end_time

\* The plan of the first k sorted clips: before each clip a gap of
\* start_time - cursor exactly when start_time > cursor, then the clip.
RECURSIVE WalkedPlan(_)
WalkedPlan(k) ==
    IF k = 0 THEN <<>>
    ELSE WalkedPlan(k - 1)
         \o (IF FGt(sorted_clips[k].start_time, CursorBefore(k))
             THEN <<GapOf(FSub(sorted_clips[k].start_time, CursorBefore(k)))>>
             ELSE <<>>)
         \o <<ClipOf(k - 1)>>

\* C2: after the loop has passed i clips, the planned segments are the
\* cursor walk over them (a gap of start_time - cursor before a clip exactly
\* when start_time > cursor, then the clip) and the cursor is the end_time
\* of the last one; clips A [0,2) and B [5,7) plan to Clip(A), Gap(3), Clip(B).
C2_PlannerWalk ==
    /\ PlanShape(timeline_segments) = WalkedPlan(i)
    /\ current_time = CursorBefore(i + 1)
    /\ (i = 2 /\ Shapes(sorted_clips) = <<ClipA, ClipB>>)
       => PlanShape(timeline_segments) = <<ClipOf(0), GapOf(Sec(3)), ClipOf(1)>>

\* C2's case: the gap example has been planned.
C2_Witness ==
    /\ pc = "exec"
    /\ Shapes(sorted_clips) = <<ClipA, ClipB>>
    /\ PlanShape(timeline_segments) = <<ClipOf(0), GapOf(Sec(3)), ClipOf(1)>>

\* C3: the durations of the planned segments of a compiled clip set sum to
\* total_duration, the maximum end_time over the input clips.
C3_DurationConserved ==
    PlanEmitted => SumDurations(timeline_segments) = MaxEndTime(params.clips)

\* C4: an export of an empty clip list returns an error at once; it has
\* started no process and written no file.
C4_EmptyFailsAtOnce ==
    /\ (pc # "idle" /\ Len(params.clips) = 0)
       => /\ pc \in {"start", "done"}
          /\ engine_calls = 0
          /\ pc = "done" => result = Err("No clips to export")
    /\ \A p \in Exports :
          (cpc[p] # "idle" /\ Len(cparams[p].clips) = 0)
          => /\ cpc[p] \in {"start", "done"}
             /\ cwrites[p] = 0
             /\ cspawns[p] = 0
             /\ cpc[p] = "done" => cresult[p] = Err("No clips to export")

\* C4's case: an export of an empty list has returned.
C4_Witness ==
    /\ pc = "done"
    /\ Len(params.clips) = 0
    /\ result.kind = "Err"

\* C5: the descriptor an export's engine reads is the one that export
\* wrote, whatever a concurrent export does.
C5_OwnDescriptor ==
    \A p \in Exports :
        engine_input[p].read => engine_input[p].file = FileWith(concat_content[p])

\* C6: an export that wrote its descriptor has tried to remove it by the
\* time it returns.
C6_DescriptorRemoved ==
    \A p \in Exports :
        (cpc[p] = "done" /\ cspawns[p] > 0) => cremoves[p] > 0

\* The loop of lines 192-231 run over the first k clips of a sorted list.
RECURSIVE LoopOver(_, _, _, _)
LoopOver(sorted, k, w, h) ==
    IF k = 0
    THEN [current_time |-> Fin(0), segment_count |-> 0, timeline_segments |-> <<>>,
          filter_parts |-> BlackSources(w, h, FAddTicks(MaxEndTime(sorted), OneSecond))]
    ELSE LoopBody(LoopOver(sorted, k - 1, w, h), k - 1, sorted[k], w, h)

\* The inputs and the segments the timeline export plans for a list.
PlanFor(clips, w, h) ==
    LET sorted == sort_by(clips)
    IN  [inputs |-> [k \in 1..Len(sorted) |-> sorted[k].file_path],
         segments |-> LoopOver(sorted, Len(sorted), w, h).timeline_segments]

\* A list in ascending start_time order, clips of equal start_time in the
\* order of the caller's list (a clip's path grows with its position there).
StablySorted(clips) ==
    \A a \in 1..Len(clips) : \A b \in (a + 1)..Len(clips) :
        LET c == partial_cmp(clips[a].start_time, clips[b].start_time)
        IN  \/ c = "Less"
            \/ c = "Equal" /\ clips[a].file_path < clips[b].file_path

\* C7: in both builds of the export, the plan of a clip list is the plan
\* of the same clips supplied sorted by start_time.
C7_OrderIndependent ==
    /\ PlanEmitted
       => \A q \in Arrangements(params.clips) :
             StablySorted(q)
             => PlanFor(q, width, height)
                = [inputs |-> input_files, segments |-> timeline_segments]
    /\ \A p \in Exports :
          cspawns[p] > 0
          => \A q \in Arrangements(cparams[p].clips) :
                StablySorted(q) => ConcatContent(q) = concat_content[p]

\* C8: the sorted list holds the caller's clips in ascending start_time
\* order, clips of equal start_time in the order the caller gave them.
C8_StableAscending ==
    SortDone
    => /\ Len(sorted_clips) = Len(params.clips)
       /\ {sorted_clips[k] : k \in 1..Len(sorted_clips)}
          = {params.clips[k] : k \in 1..Len(params.clips)}
       /\ StablySorted(sorted_clips)

\* C8's case: a list with two clips of equal start_time, and a later clip
\* given first, has been sorted.
C8_Witness ==
    /\ pc = "setup"
    /\ Len(params.clips) = 2
    /\ params.clips[1].start_time = params.clips[2].start_time
    /\ params.clips[1].end_time # params.clips[2].end_time
    /\ sorted_clips = params.clips

\* C9: a clip set with a NaN or infinite start_time is answered with an
\* error: the export neither panics nor goes on to plan it.
C9_NonFiniteRejected ==
    (/\ pc # "idle"
     /\ \E k \in 1..Len(params.clips) : ~IsFinite(params.clips[k].start_time))
    => /\ pc \in {"start", "sort", "done"}
       /\ pc = "done" => (result.kind = "Err" /\ engine_calls = 0)

Negative(a) == FLt(a, Fin(0))

Malformed(c) ==
    \/ FLt(c.trim_out, c.trim_in)
    \/ Negative(c.start_time) \/ Negative(c.end_time)
    \/ Negative(c.trim_in) \/ Negative(c.trim_out)
    \/ FGt(c.start_time, c.end_time)
    \/ FGt(c.trim_out, c.duration)

\* C10: an export whose input holds a malformed clip returns an error and
\* never runs the engine.
C10_MalformedRejected ==
    (\E k \in 1..Len(params.clips) : Malformed(params.clips[k]))
    => /\ engine_calls = 0
       /\ pc = "done" => result.kind = "Err"

(* ---------------------------- engine runs ------------------------------ *)

\* C11: an export that returns success has run the engine exactly once and
\* returns the output_path its caller gave; no export runs the engine more
\* than once.
C11_SuccessAfterOneRun ==
    /\ engine_calls <= 1
    /\ result.kind = "Ok" => (engine_calls = 1 /\ result.value = params.output_path)
    /\ \A p \in Exports :
          /\ cspawns[p] <= 1
          /\ cresult[p].kind = "Ok"
                => (cspawns[p] = 1 /\ cresult[p].value = cparams[p].output_path)

\* A timeline export has returned success after a non-zero gap and a clip.
C11_Witness ==
    /\ pc = "done"
    /\ result = Ok(OutputPath)
    /\ engine_calls = 1
    /\ Len(timeline_segments) >= 2

\* C12: when the engine fails to start or exits non-zero, the timeline
\* export returns an error, never Ok(output_path); the error carries the
\* diagnostic output() gave back (the captured stderr, or the start's
\* io::Error); and the engine has been run that once only.
C12_FailureReported ==
    output.status \in {"spawn_failed", "exit_nonzero"}
    => /\ pc = "done"
       /\ result.kind = "Err"
       /\ result # Ok(params.output_path)
       /\ result.diagnostic = output.diagnostic
       /\ engine_calls = 1

\* The engine has exited non-zero with text on stderr, and the export has
\* returned.
C12_Witness ==
    /\ pc = "done"
    /\ output.status = "exit_nonzero"
    /\ output.diagnostic # ""
    /\ result.kind = "Err"

(* ---------------------------- filter graph ----------------------------- *)

\* The positions of the concat nodes of a filter graph.
ConcatNodes(graph) == {k \in 1..Len(graph) : graph[k].f = <<"concat">>}

\* The positions of the filters of a graph that write a label.
Producers(graph, label) ==
    {k \in 1..Len(graph) : \E j \in 1..Len(graph[k].out) : graph[k].out[j] = label}

\* The sorted clips the planner puts a gap before.
GapsPlanned ==
    {k \in 1..Len(sorted_clips) : FGt(sorted_clips[k].start_time, CursorBefore(k))}

\* C14: the emitted graph has one concat node; its inputs are the planned
\* segments' labels in planned order, one (video, audio) pair a segment,
\* each label written by one sub-chain; its n is the number of planned
\* segments, clips plus gaps; its one video and one audio output are the
\* two streams mapped to the output file.
C14_OneConcatOverPlan ==
    PlanEmitted =>
        LET graph == args.filter_complex
            segs == timeline_segments
            node == graph[Len(graph)]
        IN  /\ ConcatNodes(graph) = {Len(graph)}
            /\ Len(node.in) = 2 * Len(segs)
            /\ \A j \in 1..Len(segs) :
                  /\ node.in[2 * j - 1] = segs[j].v
                  /\ node.in[2 * j] = segs[j].a
                  /\ Cardinality(Producers(graph, segs[j].v)) = 1
                  /\ Cardinality(Producers(graph, segs[j].a)) = 1
                  /\ \A j2 \in 1..Len(segs) :
                        j2 # j => (segs[j2].v # segs[j].v /\ segs[j2].a # segs[j].a)
            /\ node.size[1] = Len(segs)
            /\ Len(segs) = Len(sorted_clips) + Cardinality(GapsPlanned)
            /\ node.out = <<Label("outv", 0), Label("outa", 0)>>
            /\ args.map = node.out
            /\ args.output = params.output_path

\* A plan of two clips with a gap before each has been emitted.
C14_Witness ==
    /\ pc = "exec"
    /\ Len(sorted_clips) = 2
    /\ Cardinality(GapsPlanned) = 2
    /\ Len(timeline_segments) = 4

\* The clip segments planned so far, in planned order.
ClipSegments == SelectSeq(timeline_segments, LAMBDA seg : seg.kind = "clip")

\* The filter of the graph built so far that writes a label.
Producer(label) == filter_parts[CHOOSE k \in Producers(filter_parts, label) : TRUE]

\* C15: the n-th clip segment belongs to the n-th sorted clip; its video
\* and audio sub-chains read the same input index, the file at that index
\* of the -i inputs is the clip's own, both trim from trim_in for
\* trim_out - trim_in, and both reset the timestamps next.
C15_ClipSubChains ==
    /\ pc \in {"loop", "exec", "running", "done"} => Len(ClipSegments) = i
    /\ \A n \in 1..Len(ClipSegments) :
          LET clip == sorted_clips[n]
              vf == Producer(ClipSegments[n].v)
              af == Producer(ClipSegments[n].a)
          IN  /\ vf.in[1][1] = "in_v" /\ Len(vf.in) = 1
              /\ af.in[1][1] = "in_a" /\ Len(af.in) = 1
              /\ vf.in[1][2] = af.in[1][2]
              /\ vf.in[1][2] + 1 \in 1..Len(input_files)
              /\ input_files[vf.in[1][2] + 1] = clip.file_path
              /\ vf.start = clip.trim_in /\ af.start = clip.trim_in
              /\ vf.duration = FSub(clip.trim_out, clip.trim_in)
              /\ af.duration = FSub(clip.trim_out, clip.trim_in)
              /\ SubSeq(vf.f, 1, 2) = <<"trim", "setpts">>
              /\ SubSeq(af.f, 1, 2) = <<"atrim", "asetpts">>

\* Two clips given later-first have been planned, one of them trimmed in
\* from 1 tick and placed for longer than its trim window.
C15_Witness ==
    /\ pc = "exec"
    /\ Len(ClipSegments) = 2
    /\ sorted_clips # params.clips
    /\ \E n \in 1..2 :
          /\ sorted_clips[n].trim_in = Fin(1)
          /\ FSub(sorted_clips[n].end_time, sorted_clips[n].start_time)
                # FSub(sorted_clips[n].trim_out, sorted_clips[n].trim_in)

\* The frame size of the video a label carries: the size its filter sets
\* (color's size, pad's size), or else the size of what the filter reads.
RECURSIVE FrameSize(_)
FrameSize(label) ==
    LET p == Producer(label)
    IN  IF p.size # <<0, 0>> THEN p.size ELSE FrameSize(p.in[1])

\* C16: every planned segment, clip or gap, carries video of the resolved
\* width x height: a clip's video is scaled and padded to it, a gap's is
\* cut from the black source generated at it.
C16_UniformFrameSize ==
    \A j \in 1..Len(timeline_segments) :
        LET seg == timeline_segments[j]
            vf == Producer(seg.v)
        IN  /\ width > 0 /\ height > 0
            /\ FrameSize(seg.v) = <<width, height>>
            /\ seg.kind = "clip"
                  => (/\ vf.size = <<width, height>>
                      /\ \E a, b \in 1..Len(vf.f) :
                            a < b /\ vf.f[a] = "scale" /\ vf.f[b] = "pad")
            /\ seg.kind = "gap"
                  => (/\ vf.in = <<Label("black_v", 0)>>
                      /\ Producer(vf.in[1]).f[1] = "color"
                      /\ Producer(vf.in[1]).size = <<width, height>>)

\* A gap and a clip have been planned for a 720p export.
C16_Witness ==
    /\ pc = "exec"
    /\ params.resolution = "720p"
    /\ <<width, height>> = <<1280, 720>>
    /\ Len(timeline_segments) = 2
    /\ timeline_segments[1].kind = "gap"

(* ----------------------------- resolution ------------------------------ *)

\* A concrete frame size of even members, the named one for a named request.
ConcretePair(request, w, h) ==
    /\ w > 0 /\ h > 0
    /\ w % 2 = 0 /\ h % 2 = 0
    /\ request = "720p" => <<w, h>> = <<1280, 720>>
    /\ request = "1080p" => <<w, h>> = <<1920, 1080>>

\* The timeline export's part of C17.
TimelinePairResolved ==
    (pc \in {"loop", "exec"} \/ PlanEmitted)
    => ConcretePair(params.resolution, width, height)

\* C17: whatever the resolution request, an export resolves a concrete
\* (width, height) of even integers, (1280, 720) for "720p" and
\* (1920, 1080) for "1080p", and hands it to the engine: the timeline
\* export as the size of its segments, the concat export as its scale.
C17_ConcretePairResolved ==
    /\ TimelinePairResolved
    /\ \A p \in Exports :
          cspawns[p] > 0
          => /\ Len(cargs[p]) = 1
             /\ cargs[p][1].filter = "scale"
             /\ ConcretePair(cparams[p].resolution, cargs[p][1].w, cargs[p][1].h)

(* ------------------------------- audio --------------------------------- *)

\* C18: for a clip whose source has no audio stream the segment's audio
\* sub-chain does not read the source's audio but cuts the segment's
\* duration of silence from a generator, and the graph handed to the
\* engine names no stream that is missing, so that the export does not
\* fail for it.
C18_SilenceForMissingAudio ==
    /\ \A n \in 1..Len(ClipSegments) :
          ~sorted_clips[n].has_audio
          => LET af == Producer(ClipSegments[n].a)
             IN  /\ af.in[1][1] # "in_a"
                 /\ Producer(af.in[1]).f[1] = "anullsrc"
                 /\ af.duration = ClipSegments[n].duration
    /\ PlanEmitted => ~MissingStream(args.filter_complex, sorted_clips)

(* --------------------------- duration limit ---------------------------- *)

\* The greatest end_time of a non-empty clip list.
GreatestEnd(clips) ==
    LET ends == {clips[k].end_time : k \in 1..Len(clips)}
    IN  CHOOSE e \in ends : \A e2 \in ends : ~FLt(e, e2)

\* C19's statement for the clip lists of which no clip ends before 0.
LimitOverNonNegativeEnds ==
    (/\ PlanEmitted
     /\ \A k \in 1..Len(params.clips) : ~Negative(params.clips[k].end_time))
    => args.t = FAddTicks(GreatestEnd(params.clips), Padding)

\* C19: for every non-empty clip list the duration limit handed to the
\* encoder (-t) is the greatest end_time of the clips plus the one fixed
\* positive padding, whatever the order the clips came in and however
\* many gaps were planned.
C19_LimitIsGreatestEndPlusPadding ==
    (PlanEmitted /\ Len(params.clips) > 0)
    => /\ Padding > 0
       /\ args.t = FAddTicks(GreatestEnd(params.clips), Padding)

(* ---------------------------- single clip ------------------------------ *)

\* The export was given one clip placed at 0 and trimmed from 0 to its
\* end_time.
SingleClipFromZero ==
    /\ Len(params.clips) = 1
    /\ params.clips[1].start_time = Fin(0)
    /\ params.clips[1].trim_in = Fin(0)
    /\ params.clips[1].trim_out = params.clips[1].end_time

\* C20: one clip with start_time = 0, end_time = d, trim_in = 0 and
\* trim_out = d is planned as exactly one segment, the clip, with no gap
\* segment, and the plan's total duration (the planner's cursor after the
\* last clip, and the sum of the segments' durations) is d.
C20_SingleClipRoundTrip ==
    (PlanEmitted /\ SingleClipFromZero)
    => LET d == params.clips[1].end_time
       IN  /\ Len(timeline_segments) = 1
           /\ timeline_segments[1].kind = "clip"
           /\ PlanShape(timeline_segments) = <<ClipOf(0)>>
           /\ segment_count = 0
           /\ timeline_segments[1].duration = d
           /\ SumDurations(timeline_segments) = d
           /\ current_time = d
           /\ args.filter_complex[Len(args.filter_complex)].size[1] = 1

\* The plan of the single clip [0, 5 s) has been emitted.
C20_Witness ==
    /\ pc = "exec"
    /\ SingleClipFromZero
    /\ Shapes(params.clips) = <<ClipX>>
    /\ SumDurations(timeline_segments) = Sec(5)

(* ---------------------------- cancellation ----------------------------- *)

\* C21: a cancellation requested while the engine of an export runs leads
\* to the engine being terminated and no partial file being left at
\* output_path.
C21_CancelTerminatesAndCleans ==
    (pc = "running" /\ cancel_requested)
        ~> (pc # "running" /\ output_file # "partial")

(* ------------------------------ coverage ------------------------------- *)

\* Where the j-th planned segment begins in the output: the durations of
\* the segments before it, added up.
BeginsAt(j) == SumDurations(SubSeq(timeline_segments, 1, j - 1))

\* Every planned clip segment begins at its clip's start_time and ends at
\* its end_time.
ClipsWhereTheyArePlaced ==
    \A j \in 1..Len(timeline_segments) :
        timeline_segments[j].kind = "clip"
        => LET clip == sorted_clips[timeline_segments[j].clip + 1]
           IN  /\ BeginsAt(j) = clip.start_time
               /\ BeginsAt(j + 1) = clip.end_time

\* A clip list no claim calls invalid: finite times from 0 on, the trim
\* window as long as the placement, no clip starting before the one
\* before it in the sorted order has ended.
WellFormed(clips) ==
    /\ \A k \in 1..Len(clips) :
          /\ ~Malformed(clips[k])
          /\ IsFinite(clips[k].start_time) /\ IsFinite(clips[k].end_time)
          /\ FSub(clips[k].trim_out, clips[k].trim_in)
                = FSub(clips[k].end_time, clips[k].start_time)
    /\ \A k \in 1..(Len(clips) - 1) :
          ~FGt(clips[k].end_time, clips[k + 1].start_time)

\* C22's statement for the well-formed clip lists.
WellFormedCovered ==
    (SortDone /\ WellFormed(sorted_clips)) => ClipsWhereTheyArePlaced

\* C22: in the planned sequence every clip's segment begins at exactly the
\* clip's start_time and ends at its end_time (the durations of the
\* segments before it add up to start_time), so that the segments cover
\* [0, total_duration] with no overlap and no hole.
C22_SegmentsCoverTimeline ==
    /\ ClipsWhereTheyArePlaced
    /\ PlanEmitted => SumDurations(timeline_segments) = current_time

(* ------------------------------ gap filler ----------------------------- *)

\* The filler of every planned gap: video and audio are cut to the gap's
\* duration, the next clip's start_time less the cursor.
GapFillersCutToGap ==
    \A j \in 1..Len(timeline_segments) :
        timeline_segments[j].kind = "gap"
        => LET seg == timeline_segments[j]
               k == timeline_segments[j + 1].clip + 1
           IN  /\ seg.duration = FSub(sorted_clips[k].start_time, CursorBefore(k))
               /\ Producer(seg.v).duration = seg.duration
               /\ Producer(seg.a).duration = seg.duration
               /\ Producer(seg.v).start = Fin(0) /\ Producer(seg.a).start = Fin(0)

\* No planned gap is longer than the black video it is cut from.
GapFillersFitSource ==
    \A j \in 1..Len(timeline_segments) :
        timeline_segments[j].kind = "gap"
        => /\ Producer(Label("black_v", 0)).duration = max_duration
           /\ ~FGt(Producer(timeline_segments[j].v).duration, max_duration)

\* C23's statement for the well-formed clip lists.
WellFormedGapsFit ==
    (SortDone /\ WellFormed(sorted_clips)) => (GapFillersCutToGap /\ GapFillersFitSource)

\* C23: the filler video and the filler audio of every gap segment are cut
\* to exactly the gap's duration, clip.start_time - cursor, the same for
\* both, and that duration is never longer than the black video source
\* they are cut from, which lasts max end_time + 1 s.
C23_GapFillerDurations ==
    /\ GapFillersCutToGap
    /\ GapFillersFitSource
    /\ pc \in {"loop", "exec", "running"}
          => max_duration = FAddTicks(MaxEndTime(sorted_clips), OneSecond)

(* --------------------------- segment counts ---------------------------- *)

\* C24: once n clips have been planned the plan has between n and 2n
\* segments, its last segment is a clip (no trailing gap), no two gaps are
\* next to each other, and every gap has a duration above 0.
C24_SegmentCountAndGaps ==
    LET segs == timeline_segments
    IN  /\ i <= Len(segs) /\ Len(segs) <= 2 * i
        /\ PlanEmitted => (Len(sorted_clips) <= Len(segs) /\ Len(segs) <= 2 * Len(sorted_clips))
        /\ Len(segs) > 0 => segs[Len(segs)].kind = "clip"
        /\ \A j \in 1..(Len(segs) - 1) : ~(segs[j].kind = "gap" /\ segs[j + 1].kind = "gap")
        /\ \A j \in 1..Len(segs) :
              segs[j].kind = "gap"
              => (FGt(segs[j].duration, Fin(0)) /\ FGt(Producer(segs[j].v).duration, Fin(0)))

\* Two clips have been planned as a gap, the first clip and, with no gap
\* between them, the second.
C24_Witness ==
    /\ pc = "exec"
    /\ Len(sorted_clips) = 2
    /\ Len(timeline_segments) = 3
    /\ timeline_segments[1].kind = "gap"
    /\ timeline_segments[2].kind = "clip"
    /\ sorted_clips[2].start_time = sorted_clips[1].end_time

(* ------------------------------- phases -------------------------------- *)

\* The steps a call may take from one position to the next: the empty
\* check, the sort, the set-up, the planning loop, the assembly of the
\* arguments, the engine's start and its exit.
PhaseSteps ==
    { <<"start", "done">>, <<"start", "sort">>, <<"sort", "setup">>,
      <<"setup", "loop">>, <<"loop", "loop">>, <<"loop", "exec">>,
      <<"exec", "running">>, <<"exec", "done">>, <<"running", "done">> }

\* A step of the export keeps to that order.
InPhaseOrder == <<pc, pc'>> \in PhaseSteps \/ UNCHANGED tvars \/ RequestCancel

\* The engine is started only with the whole plan in its arguments, and
\* never for an empty clip list.
EngineAfterPlan ==
    engine_calls > 0
    => /\ Len(params.clips) > 0
       /\ i = Len(sorted_clips)
       /\ Len(ClipSegments) = Len(params.clips)
       /\ args.filter_complex = filter_parts
       /\ ConcatNodes(args.filter_complex) = {Len(args.filter_complex)}
       /\ args.output = params.output_path

\* The parts of C25 on the order of the phases, the sort's panic let by.
PhasesInOrderButForPanic ==
    []EngineAfterPlan /\ [][InPhaseOrder \/ <<pc, pc'>> = <<"sort", "panicked">>]_vars

\* A call has ended: nothing of it is left to run.
CallEnded == pc \notin {"idle", "start", "sort", "setup", "loop", "exec", "running"}

\* C25: a call passes its phases in the one order validate, plan,
\* assemble, emit, execute; it ends as exactly one of Ok and Err; the
\* engine is not started before the whole plan is assembled; a call that
\* fails validation does not reach the engine.
C25_PhasesAndOutcome ==
    /\ [](CallEnded => (pc = "done" /\ result.kind \in {"Ok", "Err"}))
    /\ []EngineAfterPlan
    /\ [][InPhaseOrder]_vars

(* ------------------------- what an export changes ---------------------- *)

\* A step of the timeline export.
ExportStep == tvars' # tvars

\* C26: no step changes the clip list (or any other parameter) the caller
\* gave, the sort working on a copy; and no step of an export changes the
\* recording-session registry or the capture-source registry, so that both
\* are after an export what they were before it.
C26_ExportChangesNothingShared ==
    [][/\ params' = params
       /\ ExportStep => (/\ RECORDING_SESSIONS' = RECORDING_SESSIONS
                         /\ CAPTURE_SOURCES' = CAPTURE_SOURCES)]_vars

\* An export of clips given later-first has returned Ok while a recording
\* session is active.
C26_Witness ==
    /\ pc = "done"
    /\ result.kind = "Ok"
    /\ sorted_clips # params.clips
    /\ \E id \in DOMAIN RECORDING_SESSIONS : RECORDING_SESSIONS[id].is_active

(* ------------------------- labels of the graph ------------------------- *)

\* How many filter inputs and output mappings of the emitted plan read a
\* label.
Consumers(label) ==
    Cardinality(UNION { { <<k, j>> : j \in { n \in 1..Len(args.filter_complex[k].in) :
                                                args.filter_complex[k].in[n] = label } } :
                        k \in 1..Len(args.filter_complex) })
        + Cardinality({ j \in 1..Len(args.map) : args.map[j] = label })

\* The labels the filters of the emitted plan write.
LabelsWritten ==
    UNION { { args.filter_complex[k].out[j] : j \in 1..Len(args.filter_complex[k].out) } :
            k \in 1..Len(args.filter_complex) }

EveryLabelReadOnce == \A label \in LabelsWritten : Consumers(label) = 1

\* C27's statement for the plans with exactly one gap.
OneGapPlansLinked ==
    (PlanEmitted /\ Cardinality(GapsPlanned) = 1) => EveryLabelReadOnce

\* C27: in every emitted filter graph each labelled filter output is read
\* by exactly one filter input or output mapping; the shared black-video
\* and silent-audio labels too, whether the plan has no gap, one or more.
C27_EveryLabelConsumedOnce ==
    PlanEmitted => EveryLabelReadOnce

(* ------------------------- recording sessions -------------------------- *)

\* The sessions of a registry that are active and of a type.
ActiveOfType(sessions, t) ==
    {id \in DOMAIN sessions : sessions[id].is_active /\ sessions[id].recording_type = t}

\* stop_recording has just returned Ok.
StopReturnedOk == last_call.op = "stop_recording" /\ last_call.ok

\* C28, as claimed: once stop_recording(t) has returned Ok, no session of
\* type t in the registry is active, whatever starts and stops came before.
C28_NoneActiveAfterStop ==
    StopReturnedOk => ActiveOfType(RECORDING_SESSIONS, last_call.type) = {}

\* C28, as the code has it: a stop_recording(t) that returns Ok names one
\* session that was active and of type t and is inactive now, its process
\* sent SIGTERM; the active sessions of type t are those of before less
\* that one.
C28_OneStoppedPerCall ==
    [][\A t \in RecordingTypes :
          (stop_recording(t) /\ last_call'.ok)
          => /\ last_call'.id \in ActiveOfType(RECORDING_SESSIONS, t)
             /\ ActiveOfType(RECORDING_SESSIONS', t)
                   = ActiveOfType(RECORDING_SESSIONS, t) \ {last_call'.id}
             /\ RECORDING_SESSIONS[last_call'.id].process_id \in signalled']_vars

\* stop_recording("screen") has returned Ok for one of two screen sessions
\* and the other is still active.
C28_Witness ==
    /\ StopReturnedOk
    /\ last_call.type = "screen"
    /\ ~RECORDING_SESSIONS[last_call.id].is_active
    /\ Cardinality(ActiveOfType(RECORDING_SESSIONS, "screen")) = 1

\* The sessions a step leaves other than they were.
SessionsChanged ==
    {id \in DOMAIN RECORDING_SESSIONS :
        id \notin DOMAIN RECORDING_SESSIONS'
        \/ RECORDING_SESSIONS'[id] # RECORDING_SESSIONS[id]}

\* What a stop_recording(t) step does to the registry.
StopFrame(t) ==
    /\ DOMAIN RECORDING_SESSIONS' = DOMAIN RECORDING_SESSIONS
    /\ Cardinality(SessionsChanged) <= 1
    /\ \A id \in SessionsChanged :
          /\ RECORDING_SESSIONS[id].is_active
          /\ RECORDING_SESSIONS[id].recording_type = t
          /\ RECORDING_SESSIONS'[id] = [RECORDING_SESSIONS[id] EXCEPT !.is_active = FALSE]
    /\ IF ActiveOfType(RECORDING_SESSIONS, t) = {}
       THEN /\ ~last_call'.ok
            /\ last_call'.msg = "No active recording found"
            /\ RECORDING_SESSIONS' = RECORDING_SESSIONS
       ELSE /\ last_call'.ok
            /\ SessionsChanged = {last_call'.id}

\* C29: stop_recording(t) changes at most one session, setting is_active
\* to false on one that was active and of type t and leaving every other
\* session and field as it was; with no active session of type t it
\* returns an error and the registry is as before.  No step of any command
\* removes a session or sets is_active back to true.
C29_StopChangesOneFlag ==
    [][/\ \A t \in RecordingTypes : stop_recording(t) => StopFrame(t)
       /\ \A id \in DOMAIN RECORDING_SESSIONS :
             /\ id \in DOMAIN RECORDING_SESSIONS'
             /\ ~RECORDING_SESSIONS[id].is_active => ~RECORDING_SESSIONS'[id].is_active]_vars

\* stop_recording("webcam") has returned Ok while a screen session is
\* active.
C29_Witness ==
    /\ StopReturnedOk
    /\ last_call.type = "webcam"
    /\ ~RECORDING_SESSIONS[last_call.id].is_active
    /\ ActiveOfType(RECORDING_SESSIONS, "screen") # {}

\* stop_recording has returned its error with a session of another type
\* active.
C29_ErrorSeen ==
    /\ last_call.op = "stop_recording" /\ ~last_call.ok
    /\ \E id \in DOMAIN RECORDING_SESSIONS : RECORDING_SESSIONS[id].is_active

(* --------------------------- capture sources --------------------------- *)

\* The call that returns in this step failed with "Source not found" and
\* the registry is as before.
NotFoundAndUnchanged ==
    /\ ~last_call'.ok
    /\ last_call'.msg = "Source not found"
    /\ CAPTURE_SOURCES' = CAPTURE_SOURCES

\* The sources other than sid are the same before and after the step.
OthersUntouched(sid) ==
    \A other \in (DOMAIN CAPTURE_SOURCES \cup DOMAIN CAPTURE_SOURCES') \ {sid} :
        /\ other \in DOMAIN CAPTURE_SOURCES /\ other \in DOMAIN CAPTURE_SOURCES'
        /\ CAPTURE_SOURCES'[other] = CAPTURE_SOURCES[other]

UpdateFrame(sid, r) ==
    IF sid \notin DOMAIN CAPTURE_SOURCES
    THEN NotFoundAndUnchanged
    ELSE /\ last_call'.ok
         /\ sid \in DOMAIN CAPTURE_SOURCES'
         /\ CAPTURE_SOURCES'[sid] =
               [CAPTURE_SOURCES[sid] EXCEPT !.x = r.x, !.y = r.y,
                                            !.width = r.width, !.height = r.height]
         /\ OthersUntouched(sid)

RemoveFrame(sid) ==
    IF sid \notin DOMAIN CAPTURE_SOURCES
    THEN NotFoundAndUnchanged
    ELSE /\ last_call'.ok
         /\ sid \notin DOMAIN CAPTURE_SOURCES'
         /\ OthersUntouched(sid)

\* C30: update_capture_source_position and remove_capture_source with an
\* id that is not registered return "Source not found" and leave the
\* registry as it was; with a registered id the update changes x, y, width
\* and height of that source and nothing else, and the remove deletes
\* that source and no other; in any interleaving of adds, updates and
\* removes.
C30_SourceCommandsFrame ==
    [][/\ \A sid \in 1..MaxSources : \A r \in Rects :
             update_capture_source_position(sid, r) => UpdateFrame(sid, r)
       /\ \A sid \in 1..MaxSources :
             remove_capture_source(sid) => RemoveFrame(sid)]_vars

\* A registered source has been moved while another source, elsewhere, is
\* registered.
C30_Witness ==
    /\ last_call.op = "update_capture_source_position" /\ last_call.ok
    /\ Cardinality(DOMAIN CAPTURE_SOURCES) = 2
    /\ last_call.source_id \in DOMAIN CAPTURE_SOURCES
    /\ CAPTURE_SOURCES[last_call.source_id].x = last_call.rect.x
    /\ \E other \in DOMAIN CAPTURE_SOURCES : CAPTURE_SOURCES[other].x # last_call.rect.x

\* An update or remove of an id that was removed before has failed while
\* another source is registered.
C30_NotFoundSeen ==
    /\ last_call.op \in {"update_capture_source_position", "remove_capture_source"}
    /\ ~last_call.ok
    /\ last_call.source_id <= uuids
    /\ CAPTURE_SOURCES # <<>>

=============================================================================
